---- MODULE Spec2Model ----
(***************************************************************************)
(* Model of the KPI pipeline of ai-finance-kpi-analysis-local:             *)
(*   src/calculate_kpis.py   - the KPI builder script                      *)
(*   src/visualize_trends.py - build_kpi_table, load_or_build_kpi_table,   *)
(*                             plot_trend, generate_trend_charts, __main__ *)
(* The state is the file system the two entry points share (the two raw    *)
(* CSV sources, output/kpi_table.csv, the four chart files) and the        *)
(* position and locals of a run of visualize_trends.py.                    *)
(*                                                                         *)
(* Values.  A cell is a record [k, n, d]:                                  *)
(*   k = "int"   an int64 cell n                                           *)
(*   k = "float" a finite float64 cell, the quotient n/d in lowest terms   *)
(*   k = "inf"   +inf (n = 1) or -inf (n = -1)                             *)
(*   k = "nan"   NaN                                                       *)
(*   k = "empty" an empty CSV field (only in files)                        *)
(* A table is [cols |-> sequence of column names,                          *)
(*             rows |-> sequence of functions column name -> cell].        *)
(*                                                                         *)
(* Spec is the pipeline: both entry points and the files changing between  *)
(* runs, over statements kept year by year.  SpecBuilder is the two copies *)
(* of the builder on every pair of source tables, in any row order.        *)
(***************************************************************************)
EXTENDS Integers, Sequences, FiniteSets, TLC

\* ---------------------------------------------------------------- bounds
NumYears == 2
MaxRows == 2

\* ---------------------------------------------------------------- cells
IntCell(v) == [k |-> "int", n |-> v, d |-> 1]
NaN == [k |-> "nan", n |-> 0, d |-> 0]
Inf(s) == [k |-> "inf", n |-> s, d |-> 0]
EmptyCell == [k |-> "empty", n |-> 0, d |-> 0]

Abs(v) == IF v < 0 THEN -v ELSE v

RECURSIVE Gcd(_, _)
Gcd(a, b) == IF b = 0 THEN a ELSE Gcd(b, a % b)

\* the finite float n/d (d # 0), in lowest terms with a positive denominator
Float(n, d) ==
    LET g == Gcd(Abs(n), Abs(d))
        s == IF d < 0 THEN -1 ELSE 1
    IN [k |-> "float", n |-> (s * n) \div g, d |-> (s * d) \div g]

\* the sign of a cell that is not NaN: -1, 0 or 1
Sign(c) == IF c.n > 0 THEN 1 ELSE IF c.n < 0 THEN -1 ELSE 0

\* TrueDiv with a zero guard: a zero denominator gives 0.0
TrueDivGuarded(a, b) ==
    IF a.k = "nan" \/ b.k = "nan" THEN NaN
    ELSE IF a.k = "inf" /\ b.k = "inf" THEN NaN
    ELSE IF a.k = "inf" THEN Inf(IF Sign(b) < 0 THEN -a.n ELSE a.n)
    ELSE IF b.k = "inf" THEN Float(0, 1)
    ELSE IF b.n = 0 THEN Float(0, 1)
    ELSE Float(a.n * b.d, a.d * b.n)

\* Series.__truediv__ on one pair of cells: float64 division, which never
\* raises: x/0 is +-inf, 0/0 is NaN, NaN and inf propagate.
TrueDiv(a, b) ==
    IF a.k = "nan" \/ b.k = "nan" THEN NaN
    ELSE IF a.k = "inf" /\ b.k = "inf" THEN NaN
    ELSE IF a.k = "inf" THEN Inf(IF Sign(b) < 0 THEN -a.n ELSE a.n)
    ELSE IF b.k = "inf" THEN Float(0, 1)
    ELSE IF b.n = 0 THEN (IF a.n = 0 THEN NaN ELSE Inf(Sign(a)))
    ELSE Float(a.n * b.d, a.d * b.n)

\* Series.__sub__ on one pair of cells
Minus(a, b) ==
    IF a.k = "nan" \/ b.k = "nan" THEN NaN
    ELSE IF a.k = "inf" /\ b.k = "inf" THEN (IF a.n = b.n THEN NaN ELSE a)
    ELSE IF a.k = "inf" THEN a
    ELSE IF b.k = "inf" THEN Inf(-b.n)
    ELSE IF a.k = "int" /\ b.k = "int" THEN IntCell(a.n - b.n)
    ELSE Float(a.n * b.d - b.n * a.d, a.d * b.d)

\* ---------------------------------------------------------------- tables
Range(s) == {s[i] : i \in 1..Len(s)}

HasCol(t, c) == c \in Range(t.cols)

\* the column c of table t as a sequence of cells (df[c], c present)
Column(t, c) == [i \in 1..Len(t.rows) |-> t.rows[i][c]]

NoTable == [cols |-> <<>>, rows |-> <<>>]

\* DataFrame.to_csv(path, index=False): a header and one line per row, in
\* row order; NaN is written as the empty field, everything else as its repr
ToCsvCell(c) == IF c.k = "nan" THEN EmptyCell ELSE c

to_csv(t) ==
    [cols |-> t.cols,
     rows |-> [i \in 1..Len(t.rows) |->
                 [c \in Range(t.cols) |-> ToCsvCell(t.rows[i][c])]]]

\* pd.read_csv(path): the empty field is read as NaN
FromCsvCell(c) == IF c.k = "empty" THEN NaN ELSE c

read_csv(f) ==
    [cols |-> f.cols,
     rows |-> [i \in 1..Len(f.rows) |->
                 [c \in Range(f.cols) |-> FromCsvCell(f.rows[i][c])]]]

\* ---------------------------------------------------------------- column names
IncomeCols == <<"Year", "Revenue", "OperatingIncome", "NetIncome", "InterestExpense">>

BalanceCols ==
    <<"Year", "TotalAssets", "TotalEquity", "TotalLiabilities", "Inventory",
      "AccountsReceivable", "TotalCurrentAssets", "TotalCurrentLiabilities">>

\* the columns= argument of balance.rename (the same dict in both files)
RenameMap ==
    [c \in {"TotalCurrentAssets", "TotalCurrentLiabilities"} |->
        IF c = "TotalCurrentAssets" THEN "CurrentAssets" ELSE "CurrentLiabilities"]

\* ---------------------------------------------------------------- data-frame operations
\* DataFrame.rename(columns=m, inplace=True): errors="ignore" is the default, so
\* a key of m that is no column of t is skipped without an error
NewName(m, c) == IF c \in DOMAIN m THEN m[c] ELSE c

Rename(t, m) ==
    LET cols == [i \in 1..Len(t.cols) |-> NewName(m, t.cols[i])]
        Old(c) == CHOOSE o \in Range(t.cols) : NewName(m, o) = c
    IN [cols |-> cols,
        rows |-> [i \in 1..Len(t.rows) |-> [c \in Range(cols) |-> t.rows[i][Old(c)]]]]

\* one joined row: the left row's fields, then the right row's other fields
JoinRow(l, r) ==
    [c \in (DOMAIN l) \cup (DOMAIN r) |-> IF c \in DOMAIN l THEN l[c] ELSE r[c]]

\* MatchesOf without the key test: a cross join
MatchesOfCross(l, rightRows, on) ==
    [j \in 1..Len(rightRows) |-> JoinRow(l, rightRows[j])]

\* the joined rows of one left row: one per right row with the same key, in
\* the right table's order
MatchesOf(l, rightRows, on) ==
    LET Same(r) == r[on] = l[on]
        m == SelectSeq(rightRows, Same)
    IN [j \in 1..Len(m) |-> JoinRow(l, m[j])]

\* MergeRows driven by the right table: the result follows the right keys' order
RECURSIVE MergeRowsRightOrder(_, _, _)
MergeRowsRightOrder(leftRows, rightRows, on) ==
    IF rightRows = <<>> THEN <<>>
    ELSE LET r == Head(rightRows)
             Same(l) == l[on] = r[on]
             m == SelectSeq(leftRows, Same)
         IN [j \in 1..Len(m) |-> JoinRow(m[j], r)]
                \o MergeRowsRightOrder(leftRows, Tail(rightRows), on)

RECURSIVE MergeRows(_, _, _)
MergeRows(leftRows, rightRows, on) ==
    IF leftRows = <<>> THEN <<>>
    ELSE MatchesOf(Head(leftRows), rightRows, on)
            \o MergeRows(Tail(leftRows), rightRows, on)

\* left.merge(right, on=key): how="inner" is the default; the result keeps the
\* order of the left keys; its columns are left's, then right's without the key
Merge(left, right, on) ==
    LET NotKey(c) == c # on
    IN [cols |-> left.cols \o SelectSeq(right.cols, NotKey),
        rows |-> MergeRows(left.rows, right.rows, on)]

\* df[c] = s: a new column is appended, an existing one is replaced in place
SetColumn(t, c, s) ==
    LET cols == IF HasCol(t, c) THEN t.cols ELSE Append(t.cols, c)
    IN [cols |-> cols,
        rows |-> [i \in 1..Len(t.rows) |->
                    [x \in Range(cols) |-> IF x = c THEN s[i] ELSE t.rows[i][x]]]]

\* ---------------------------------------------------------------- the ten derivations
\* One assignment df[col] = num / den, or df[col] = (num - sub) / den;
\* sub = "" when there is no subtraction.
Derivation(col, num, sub, den) == [col |-> col, num |-> num, sub |-> sub, den |-> den]

\* the columns one assignment reads, in Python's evaluation order
Operands(dv) == IF dv.sub = "" THEN <<dv.num, dv.den>> ELSE <<dv.num, dv.sub, dv.den>>

\* Formula without the subtraction
FormulaNoSub(dv, r) == TrueDiv(r[dv.num], r[dv.den])

\* the value of one assignment's right-hand side on row r
Formula(dv, r) ==
    IF dv.sub = "" THEN TrueDiv(r[dv.num], r[dv.den])
    ELSE TrueDiv(Minus(r[dv.num], r[dv.sub]), r[dv.den])

\* the list of build_kpi_table cut after the liquidity ratios
TrendDerivationsShort ==
    << Derivation("OperatingMargin", "OperatingIncome", "", "Revenue"),
       Derivation("NetMargin", "NetIncome", "", "Revenue"),
       Derivation("ROA", "NetIncome", "", "TotalAssets"),
       Derivation("ROE", "NetIncome", "", "TotalEquity"),
       Derivation("CurrentRatio", "CurrentAssets", "", "CurrentLiabilities"),
       Derivation("QuickRatio", "CurrentAssets", "Inventory", "CurrentLiabilities") >>

\* src/visualize_trends.py lines 55-71
TrendDerivations ==
    << Derivation("OperatingMargin", "OperatingIncome", "", "Revenue"),
       Derivation("NetMargin", "NetIncome", "", "Revenue"),
       Derivation("ROA", "NetIncome", "", "TotalAssets"),
       Derivation("ROE", "NetIncome", "", "TotalEquity"),
       Derivation("CurrentRatio", "CurrentAssets", "", "CurrentLiabilities"),
       Derivation("QuickRatio", "CurrentAssets", "Inventory", "CurrentLiabilities"),
       Derivation("DebtToEquity", "TotalLiabilities", "", "TotalEquity"),
       Derivation("InterestCoverage", "OperatingIncome", "", "InterestExpense"),
       Derivation("AssetTurnover", "Revenue", "", "TotalAssets"),
       Derivation("ReceivablesTurnover", "Revenue", "", "AccountsReceivable") >>

\* the list of the script with ROE drifted away from build_kpi_table's
ScriptDerivationsDrifted ==
    [TrendDerivations EXCEPT ![4] = Derivation("ROE", "NetIncome", "", "TotalAssets")]

\* src/calculate_kpis.py lines 28-40
ScriptDerivations ==
    << Derivation("OperatingMargin", "OperatingIncome", "", "Revenue"),
       Derivation("NetMargin", "NetIncome", "", "Revenue"),
       Derivation("ROA", "NetIncome", "", "TotalAssets"),
       Derivation("ROE", "NetIncome", "", "TotalEquity"),
       Derivation("CurrentRatio", "CurrentAssets", "", "CurrentLiabilities"),
       Derivation("QuickRatio", "CurrentAssets", "Inventory", "CurrentLiabilities"),
       Derivation("DebtToEquity", "TotalLiabilities", "", "TotalEquity"),
       Derivation("InterestCoverage", "OperatingIncome", "", "InterestExpense"),
       Derivation("AssetTurnover", "Revenue", "", "TotalAssets"),
       Derivation("ReceivablesTurnover", "Revenue", "", "AccountsReceivable") >>

\* ---------------------------------------------------------------- outcomes
NoError == [kind |-> "none", col |-> "", step |-> ""]
KeyError(c, step) == [kind |-> "KeyError", col |-> c, step |-> step]
ValueError(c, step) == [kind |-> "ValueError", col |-> c, step |-> step]

\* the first operand of dv that is no column of t, "" when all are there
MissingOperand(t, dv) ==
    LET ops == Operands(dv)
        bad == {i \in 1..Len(ops) : ~HasCol(t, ops[i])}
    IN IF bad = {} THEN ""
       ELSE ops[CHOOSE i \in bad : \A j \in bad : i <= j]

\* one assignment: df[c] on an absent column raises KeyError(c) and the
\* statements after it are not run
DeriveOne(t, dv) ==
    SetColumn(t, dv.col, [i \in 1..Len(t.rows) |-> Formula(dv, t.rows[i])])

\* DeriveAll that skips an assignment whose operand is missing and goes on
RECURSIVE DeriveAllSkipMissing(_, _)
DeriveAllSkipMissing(t, dvs) ==
    IF dvs = <<>> THEN [err |-> NoError, df |-> t]
    ELSE IF MissingOperand(t, Head(dvs)) # ""
         THEN DeriveAllSkipMissing(t, Tail(dvs))
         ELSE DeriveAllSkipMissing(DeriveOne(t, Head(dvs)), Tail(dvs))

\* the assignments dvs in order on t: [err, df], where df is the frame when
\* the run of assignments stopped
RECURSIVE DeriveAll(_, _)
DeriveAll(t, dvs) ==
    IF dvs = <<>> THEN [err |-> NoError, df |-> t]
    ELSE LET miss == MissingOperand(t, Head(dvs))
         IN IF miss # ""
            THEN [err |-> KeyError(miss, "derive"), df |-> t]
            ELSE DeriveAll(DeriveOne(t, Head(dvs)), Tail(dvs))

\* ---------------------------------------------------------------- the two builders
\* src/calculate_kpis.py lines 13-40: the frame df before df.to_csv, or the
\* error that ended the script before it
ScriptBuild(inc, bal) ==
    DeriveAll(Merge(inc, Rename(bal, RenameMap), "Year"), ScriptDerivations)

\* src/visualize_trends.py build_kpi_table lines 40-71, likewise
BuildFrame(inc, bal) ==
    DeriveAll(Merge(inc, Rename(bal, RenameMap), "Year"), TrendDerivations)

\* ---------------------------------------------------------------- the files
\* output/kpi_table.csv: absent, or the header and lines last written to it
Absent == [exists |-> FALSE, data |-> NoTable]
File(t) == [exists |-> TRUE, data |-> t]

\* df.to_csv(kpi_path, index=False): mode="w" is the default, the file is
\* replaced whatever it held before
WriteKpiFile(old, df) == File(to_csv(df))

\* a chart file: absent, or the figure saved to it
NoChart == [exists |-> FALSE, x |-> <<>>, y |-> <<>>, title |-> "", ylabel |-> ""]

\* the charts list of generate_trend_charts
Charts ==
    << [column |-> "OperatingMargin", ylabel |-> "Operating Margin",
        filename |-> "operating_margin_trend.png"],
       [column |-> "NetMargin", ylabel |-> "Net Margin",
        filename |-> "net_margin_trend.png"],
       [column |-> "ROE", ylabel |-> "Return on Equity",
        filename |-> "roe_trend.png"],
       [column |-> "DebtToEquity", ylabel |-> "Debt-to-Equity",
        filename |-> "debt_to_equity_trend.png"] >>

ChartFiles == {Charts[i].filename : i \in 1..Len(Charts)}

\* the columns of the console view printed by __main__ of visualize_trends.py
PrintCols == <<"Year", "OperatingMargin", "NetMargin", "ROA", "ROE", "DebtToEquity">>

\* plot_trend that checks Year only and plots whatever else it finds
plot_trend_unchecked(df, kpi_column, ylabel) ==
    IF ~HasCol(df, "Year") THEN [err |-> ValueError("Year", "plot"), fig |-> NoChart]
    ELSE [err |-> NoError,
          fig |-> [exists |-> TRUE, x |-> Column(df, "Year"),
                   y |-> IF HasCol(df, kpi_column) THEN Column(df, kpi_column) ELSE <<>>,
                   title |-> kpi_column, ylabel |-> ylabel]]

\* plot_trend(df, kpi_column, ylabel, output_filename): [err, fig]; fig is the
\* figure handed to plt.savefig, the title standing for "<kpi_column> Trend Over Time"
plot_trend(df, kpi_column, ylabel) ==
    IF ~HasCol(df, "Year") THEN [err |-> ValueError("Year", "plot"), fig |-> NoChart]
    ELSE IF ~HasCol(df, kpi_column)
    THEN [err |-> ValueError(kpi_column, "plot"), fig |-> NoChart]
    ELSE [err |-> NoError,
          fig |-> [exists |-> TRUE, x |-> Column(df, "Year"), y |-> Column(df, kpi_column),
                   title |-> kpi_column, ylabel |-> ylabel]]

\* kpi_df[[...]]: the first listed column that is absent, "" when none is
FirstMissing(t, cs) ==
    LET bad == {i \in 1..Len(cs) : ~HasCol(t, cs[i])}
    IN IF bad = {} THEN "" ELSE cs[CHOOSE i \in bad : \A j \in bad : i <= j]

\* ---------------------------------------------------------------- inputs
Years == 2021..(2020 + NumYears)

\* (Revenue, OperatingIncome, NetIncome, InterestExpense) of an income row
IncomeProfiles == { <<100, 20, 10, 5>>, <<0, 0, 10, 0>> }

\* (TotalAssets, TotalEquity, TotalLiabilities, Inventory, AccountsReceivable,
\*  TotalCurrentAssets, TotalCurrentLiabilities) of a balance row
BalanceProfiles == { <<200, 80, 120, 10, 25, 60, 30>>, <<0, 0, 120, 70, 0, 60, 0>> }

MakeRow(cols, y, p) ==
    [c \in Range(cols) |->
        IF c = "Year" THEN IntCell(y)
        ELSE IntCell(p[(CHOOSE i \in 1..Len(cols) : cols[i] = c) - 1])]

IncomeRows == {MakeRow(IncomeCols, y, p) : y \in Years, p \in IncomeProfiles}
BalanceRows == {MakeRow(BalanceCols, y, p) : y \in Years, p \in BalanceProfiles}

YearOf(r) == r["Year"].n

\* the tables of 1..MaxRows rows of R, one row per Year at most (Year is the
\* key of both statements), in any row order
RowSeqs(R) ==
    UNION {{rs \in [1..n -> R] : \A i, j \in 1..n : i # j => YearOf(rs[i]) # YearOf(rs[j])}
             : n \in 1..MaxRows}

\* a source file that lacks column c
DropColumn(t, c) ==
    LET Keep(x) == x # c
        cols == SelectSeq(t.cols, Keep)
    IN [cols |-> cols,
        rows |-> [i \in 1..Len(t.rows) |-> [x \in Range(cols) |-> t.rows[i][x]]]]

IncomeTables == {[cols |-> IncomeCols, rows |-> rs] : rs \in RowSeqs(IncomeRows)}

FullBalanceTables == {[cols |-> BalanceCols, rows |-> rs] : rs \in RowSeqs(BalanceRows)}

\* balance sheets with the documented columns, and ones lacking a column to rename
BalanceTables ==
    FullBalanceTables
        \cup {DropColumn(t, c) : t \in FullBalanceTables, c \in DOMAIN RenameMap}

\* a statement kept year by year: the first fiscal years in ascending order
IsYearly(t) == \A i \in 1..Len(t.rows) : YearOf(t.rows[i]) = 2020 + i

\* columns an older or hand-edited kpi_table.csv may lack
DroppableCols == {"Year", "ROE"}

\* the kpi_table.csv left by a run of an earlier fiscal year
EarlierKpiFile ==
    File(to_csv(BuildFrame(
        [cols |-> IncomeCols, rows |-> <<MakeRow(IncomeCols, 2020, <<90, 18, 9, 3>>)>>],
        [cols |-> BalanceCols,
         rows |-> <<MakeRow(BalanceCols, 2020, <<180, 60, 120, 10, 30, 50, 25>>)>>]).df))

\* ---------------------------------------------------------------- state
VARIABLES
    income,     \* data/sample/comcast_income_statement.csv
    balance,    \* data/sample/comcast_balance_sheet.csv
    kpi_file,   \* output/kpi_table.csv
    charts,     \* the four chart files of output/, by file name
    pc,         \* "idle", or the position of a run of visualize_trends.py:
                \* "charts" inside generate_trend_charts, "print" before the print
    df,         \* the KPI frame of the last run: df of the script, the frame
                \* build_kpi_table returned, kpi_df of visualize_trends.py
    chart_idx,  \* the index of the next chart of the for loop
    run,        \* the entry point started last: "none", "script",
                \* "build_kpi_table", "trend"
    origin,     \* how the last trend run got its table: "none", "artifact", "build"
    err,        \* the exception that ended the last run, NoError if none did
    called,     \* the kpi_column of each plot_trend call of the last trend run
    written,    \* the chart files saved by the last trend run, in order
    persisted   \* who wrote kpi_file last, and the sources read for it

vars ==
    <<income, balance, kpi_file, charts, pc, df, chart_idx, run, origin, err,
      called, written, persisted>>

NotPersisted == [by |-> "none", inc |-> NoTable, bal |-> NoTable]
PersistedBy(who, inc, bal) == [by |-> who, inc |-> inc, bal |-> bal]

\* a fresh checkout: no output yet
Fresh ==
    /\ charts = [f \in ChartFiles |-> NoChart]
    /\ pc = "idle"
    /\ df = NoTable
    /\ chart_idx = 1
    /\ run = "none"
    /\ origin = "none"
    /\ err = NoError
    /\ called = <<>>
    /\ written = <<>>

Init ==
    /\ income \in {t \in IncomeTables : IsYearly(t)}
    /\ balance \in {t \in BalanceTables : IsYearly(t)}
    /\ kpi_file = Absent
    /\ persisted = NotPersisted
    /\ Fresh

InitBuilder ==
    /\ income \in IncomeTables
    /\ balance \in BalanceTables
    /\ \/ kpi_file = Absent /\ persisted = NotPersisted
       \/ kpi_file = EarlierKpiFile /\ persisted = [NotPersisted EXCEPT !.by = "earlier"]
    /\ Fresh

\* ---------------------------------------------------------------- calculate_kpis.py
\* One run of the script: read both sources, rename, merge, derive, write
\* kpi_table.csv, print.  An exception ends the run where it is raised.
RunCalculateKpis ==
    /\ pc = "idle"
    /\ LET r == ScriptBuild(income, balance)
       IN /\ err' = r.err
          /\ IF r.err = NoError
             THEN /\ kpi_file' = WriteKpiFile(kpi_file, r.df)
                  /\ persisted' = PersistedBy("script", income, balance)
                  /\ df' = r.df
             ELSE /\ df' = NoTable
                  /\ UNCHANGED <<kpi_file, persisted>>
    /\ run' = "script"
    /\ UNCHANGED <<income, balance, charts, pc, chart_idx, origin, called, written>>

\* ---------------------------------------------------------------- visualize_trends.py
\* build_kpi_table(): [err, df, file, persisted], the file and its writer after the call
build_kpi_table ==
    LET r == BuildFrame(income, balance)
    IN IF r.err = NoError
       THEN [err |-> NoError, df |-> r.df, file |-> WriteKpiFile(kpi_file, r.df),
             persisted |-> PersistedBy("build_kpi_table", income, balance)]
       ELSE [err |-> r.err, df |-> NoTable, file |-> kpi_file, persisted |-> persisted]

\* load_or_build_kpi_table that rebuilds whether or not the file exists
load_always_build == [origin |-> "build"] @@ build_kpi_table

\* load_or_build_kpi_table(): [origin, err, df, file, persisted]
load_or_build_kpi_table ==
    IF kpi_file.exists
    THEN [origin |-> "artifact", err |-> NoError, df |-> read_csv(kpi_file.data),
          file |-> kpi_file, persisted |-> persisted]
    ELSE [origin |-> "build"] @@ build_kpi_table

\* __main__, first statement: kpi_df = load_or_build_kpi_table()
TrendLoad ==
    /\ pc = "idle"
    /\ LET r == load_or_build_kpi_table
       IN /\ origin' = r.origin
          /\ err' = r.err
          /\ df' = r.df
          /\ kpi_file' = r.file
          /\ persisted' = r.persisted
          /\ pc' = IF r.err = NoError THEN "charts" ELSE "idle"
    /\ run' = "trend"
    /\ chart_idx' = 1
    /\ called' = <<>>
    /\ written' = <<>>
    /\ UNCHANGED <<income, balance, charts>>

\* the loop with the call wrapped in try/except: a failed chart is skipped
TrendPlotCatch ==
    /\ pc = "charts"
    /\ LET chart == Charts[chart_idx]
           r == plot_trend(df, chart.column, chart.ylabel)
       IN /\ called' = Append(called, chart.column)
          /\ err' = r.err
          /\ IF r.err = NoError
             THEN /\ charts' = [charts EXCEPT ![chart.filename] = r.fig]
                  /\ written' = Append(written, chart.filename)
             ELSE UNCHANGED <<charts, written>>
          /\ chart_idx' = chart_idx + 1
          /\ pc' = IF chart_idx = Len(Charts) THEN "print" ELSE "charts"
    /\ UNCHANGED <<income, balance, kpi_file, df, run, origin, persisted>>

\* generate_trend_charts(kpi_df): one iteration of its for loop, one call of
\* plot_trend; the exception of plot_trend is not caught and ends the run
TrendPlot ==
    /\ pc = "charts"
    /\ LET chart == Charts[chart_idx]
           r == plot_trend(df, chart.column, chart.ylabel)
       IN /\ called' = Append(called, chart.column)
          /\ err' = r.err
          /\ IF r.err = NoError
             THEN /\ charts' = [charts EXCEPT ![chart.filename] = r.fig]
                  /\ written' = Append(written, chart.filename)
                  /\ chart_idx' = chart_idx + 1
                  /\ pc' = IF chart_idx = Len(Charts) THEN "print" ELSE "charts"
             ELSE /\ pc' = "idle"
                  /\ UNCHANGED <<charts, written, chart_idx>>
    /\ UNCHANGED <<income, balance, kpi_file, df, run, origin, persisted>>

\* __main__, last statement: print(kpi_df[[...]])
TrendPrint ==
    /\ pc = "print"
    /\ LET miss == FirstMissing(df, PrintCols)
       IN err' = IF miss = "" THEN NoError ELSE KeyError(miss, "print")
    /\ pc' = "idle"
    /\ UNCHANGED <<income, balance, kpi_file, charts, df, chart_idx, run, origin,
                   called, written, persisted>>

\* ---------------------------------------------------------------- the environment
\* Between runs a statement gets the row of its next fiscal year.
AppendIncomeRow ==
    /\ pc = "idle"
    /\ Len(income.rows) < MaxRows
    /\ \E r \in IncomeRows :
          /\ YearOf(r) = 2020 + Len(income.rows) + 1
          /\ income' = [income EXCEPT !.rows = Append(@, r)]
    /\ UNCHANGED <<balance, kpi_file, charts, pc, df, chart_idx, run, origin, err,
                   called, written, persisted>>

AppendBalanceRow ==
    /\ pc = "idle"
    /\ Len(balance.rows) < MaxRows
    /\ \E r \in BalanceRows :
          /\ YearOf(r) = 2020 + Len(balance.rows) + 1
          /\ balance' = [balance EXCEPT
                            !.rows = Append(@, [c \in Range(balance.cols) |-> r[c]])]
    /\ UNCHANGED <<income, kpi_file, charts, pc, df, chart_idx, run, origin, err,
                   called, written, persisted>>

RemoveKpiFile ==
    /\ pc = "idle"
    /\ kpi_file.exists
    /\ kpi_file' = Absent
    /\ persisted' = NotPersisted
    /\ UNCHANGED <<income, balance, charts, pc, df, chart_idx, run, origin, err,
                   called, written>>

\* kpi_table.csv loses a column (a file of an older layout, or trimmed by hand)
TrimKpiFile ==
    /\ pc = "idle"
    /\ kpi_file.exists
    /\ \E c \in DroppableCols :
          /\ HasCol(kpi_file.data, c)
          /\ kpi_file' = File(DropColumn(kpi_file.data, c))
    /\ persisted' = [persisted EXCEPT !.by = "hand"]
    /\ UNCHANGED <<income, balance, charts, pc, df, chart_idx, run, origin, err,
                   called, written>>

Next ==
    \/ RunCalculateKpis
    \/ TrendLoad
    \/ TrendPlot
    \/ TrendPrint
    \/ AppendIncomeRow
    \/ AppendBalanceRow
    \/ RemoveKpiFile
    \/ TrimKpiFile

Spec == Init /\ [][Next]_vars

\* build_kpi_table() called on its own (visualize_trends imported as a module)
CallBuildKpiTable ==
    /\ pc = "idle"
    /\ LET r == build_kpi_table
       IN /\ err' = r.err
          /\ kpi_file' = r.file
          /\ persisted' = r.persisted
          /\ df' = r.df
    /\ run' = "build_kpi_table"
    /\ UNCHANGED <<income, balance, charts, pc, chart_idx, origin, called, written>>

NextBuilder ==
    \/ RunCalculateKpis
    \/ CallBuildKpiTable

\* the two builders on every pair of source files
SpecBuilder == InitBuilder /\ [][NextBuilder]_vars

\* ================================================================ properties
Builders == {"script", "build_kpi_table"}

\* a builder ran last and ended without an exception
Built == run \in Builders /\ err = NoError

YearsIn(t) == {YearOf(t.rows[i]) : i \in 1..Len(t.rows)}
YearSeq(t) == [i \in 1..Len(t.rows) |-> YearOf(t.rows[i])]
UniqueYears(t) == \A i, j \in 1..Len(t.rows) : i # j => YearOf(t.rows[i]) # YearOf(t.rows[j])
CommonYears == YearsIn(income) \cap YearsIn(balance)

\* the row of table t for year y
RowOf(t, y) == t.rows[CHOOSE i \in 1..Len(t.rows) : YearOf(t.rows[i]) = y]

\* C1: with Year unique in each source, the KPI table a builder produces (in
\* memory and in kpi_table.csv) has exactly one row per Year found in both
\* sources: as many rows as common years, and no other Year.
C1_InnerJoin ==
    (Built /\ UniqueYears(income) /\ UniqueYears(balance)) =>
        /\ Len(df.rows) = Cardinality(CommonYears)
        /\ YearsIn(df) = CommonYears
        /\ kpi_file.exists
        /\ Len(kpi_file.data.rows) = Cardinality(CommonYears)
        /\ YearsIn(kpi_file.data) = CommonYears

\* a build where one Year is in the income statement only, another in both
C1_Witness ==
    /\ Built
    /\ YearsIn(income) \ YearsIn(balance) # {}
    /\ Len(kpi_file.data.rows) >= 1

\* the ten ratios as the documentation states them, on one KPI row
Ratio(col, r) ==
    CASE col = "OperatingMargin" -> TrueDiv(r["OperatingIncome"], r["Revenue"])
      [] col = "NetMargin" -> TrueDiv(r["NetIncome"], r["Revenue"])
      [] col = "ROA" -> TrueDiv(r["NetIncome"], r["TotalAssets"])
      [] col = "ROE" -> TrueDiv(r["NetIncome"], r["TotalEquity"])
      [] col = "CurrentRatio" -> TrueDiv(r["CurrentAssets"], r["CurrentLiabilities"])
      [] col = "QuickRatio" ->
            TrueDiv(Minus(r["CurrentAssets"], r["Inventory"]), r["CurrentLiabilities"])
      [] col = "DebtToEquity" -> TrueDiv(r["TotalLiabilities"], r["TotalEquity"])
      [] col = "InterestCoverage" -> TrueDiv(r["OperatingIncome"], r["InterestExpense"])
      [] col = "AssetTurnover" -> TrueDiv(r["Revenue"], r["TotalAssets"])
      [] col = "ReceivablesTurnover" -> TrueDiv(r["Revenue"], r["AccountsReceivable"])

RatioCols ==
    {"OperatingMargin", "NetMargin", "ROA", "ROE", "CurrentRatio", "QuickRatio",
     "DebtToEquity", "InterestCoverage", "AssetTurnover", "ReceivablesTurnover"}

\* the source fields of KPI row r are those of the two source rows of its Year
FromSources(r) ==
    LET inc == RowOf(income, YearOf(r))
        bal == RowOf(balance, YearOf(r))
    IN /\ \A c \in Range(IncomeCols) : r[c] = inc[c]
       /\ \A c \in Range(BalanceCols) \ DOMAIN RenameMap : r[c] = bal[c]
       /\ r["CurrentAssets"] = bal["TotalCurrentAssets"]
       /\ r["CurrentLiabilities"] = bal["TotalCurrentLiabilities"]

\* C2: in every row of the KPI table a builder produces, each of the ten
\* derived columns equals its documented formula on that row's source fields,
\* which are the fields of the income and balance rows of the same Year
\* (CurrentAssets, CurrentLiabilities being the balance sheet's
\* TotalCurrentAssets, TotalCurrentLiabilities).
C2_ExactFormulas ==
    Built =>
        \A i \in 1..Len(df.rows) :
            /\ RatioCols \subseteq DOMAIN df.rows[i]
            /\ FromSources(df.rows[i])
            /\ \A c \in RatioCols : df.rows[i][c] = Ratio(c, df.rows[i])

\* a built row with the ratios of the documented example shape: 20/100, and a
\* quick ratio (60 - 10)/30
C2_Witness ==
    /\ Built
    /\ \E i \in 1..Len(df.rows) :
          /\ df.rows[i]["OperatingMargin"] = Float(1, 5)
          /\ df.rows[i]["QuickRatio"] = Float(5, 3)

\* the column each ratio divides by
Denominator(col) ==
    CASE col \in {"OperatingMargin", "NetMargin"} -> "Revenue"
      [] col \in {"ROA", "AssetTurnover"} -> "TotalAssets"
      [] col \in {"ROE", "DebtToEquity"} -> "TotalEquity"
      [] col \in {"CurrentRatio", "QuickRatio"} -> "CurrentLiabilities"
      [] col = "InterestCoverage" -> "InterestExpense"
      [] col = "ReceivablesTurnover" -> "AccountsReceivable"

FullSchema == Range(balance.cols) = Range(BalanceCols)

\* C7: a zero denominator (Revenue = 0 for OperatingMargin and NetMargin, and
\* likewise for the other ratios) raises nothing: the build completes, the
\* ratio of that row is inf or NaN, the row is in the frame and in
\* kpi_table.csv, and every ratio with a nonzero denominator, in that row and
\* in the others, is the finite quotient.
C7_ZeroDenominator ==
    (run \in Builders /\ FullSchema) =>
        /\ err = NoError
        /\ Len(df.rows) = Cardinality(CommonYears)
        /\ kpi_file.exists
        /\ YearSeq(kpi_file.data) = YearSeq(df)
        /\ \A i \in 1..Len(df.rows) : \A c \in RatioCols :
              LET v == df.rows[i][c]
                  w == kpi_file.data.rows[i][c]
              IN IF df.rows[i][Denominator(c)].n = 0
                 THEN v.k \in {"inf", "nan"} /\ w.k \in {"inf", "empty"}
                 ELSE v.k = "float" /\ w = v /\ v = Ratio(c, df.rows[i])

\* a build with a Revenue = 0 row (0/0 and 10/0) next to an ordinary row
C7_Witness ==
    /\ Built
    /\ \E i, j \in 1..Len(df.rows) :
          /\ df.rows[i]["Revenue"] = IntCell(0)
          /\ df.rows[i]["OperatingMargin"] = NaN
          /\ df.rows[i]["NetMargin"] = Inf(1)
          /\ kpi_file.data.rows[i]["OperatingMargin"] = EmptyCell
          /\ df.rows[j]["Revenue"] = IntCell(100)
          /\ kpi_file.data.rows[j]["NetMargin"] = Float(1, 10)

\* C8: the rows of the KPI table a builder produces are in the income
\* statement's row order, restricted to the years the balance sheet has; the
\* balance sheet's row order does not matter, and no other row is dropped.
C8_IncomeOrder ==
    Built =>
        LET InBalance(y) == y \in YearsIn(balance)
            expected == SelectSeq(YearSeq(income), InBalance)
        IN /\ YearSeq(df) = expected
           /\ YearSeq(kpi_file.data) = expected

\* income in the order 2022, 2021 and balance in the order 2021, 2022
C8_Witness ==
    /\ Built
    /\ YearSeq(income) = <<2022, 2021>>
    /\ YearSeq(balance) = <<2021, 2022>>
    /\ YearSeq(df) = <<2022, 2021>>

\* C9: what one copy of the builder persisted is, to the cell and the column
\* order, what the other copy persists from the same sources; the file holds
\* that table alone, whatever it held before the run.
C9_CopiesAgree ==
    /\ persisted.by = "script" =>
          LET o == BuildFrame(persisted.inc, persisted.bal)
          IN o.err = NoError /\ kpi_file = File(to_csv(o.df))
    /\ persisted.by = "build_kpi_table" =>
          LET o == ScriptBuild(persisted.inc, persisted.bal)
          IN o.err = NoError /\ kpi_file = File(to_csv(o.df))

\* build_kpi_table ran over the file an earlier run had left, with two rows to write
C9_Witness ==
    /\ persisted.by = "build_kpi_table"
    /\ run = "build_kpi_table"
    /\ Len(kpi_file.data.rows) = 2
    /\ kpi_file.data.cols[Len(kpi_file.data.cols)] = "ReceivablesTurnover"

LacksRenameSource ==
    ~HasCol(balance, "TotalCurrentAssets") \/ ~HasCol(balance, "TotalCurrentLiabilities")

\* C5 as stated: a balance sheet lacking TotalCurrentAssets or
\* TotalCurrentLiabilities makes the builder fail at the rename step, and the
\* run persists no KPI table.
C5_FailsAtRename ==
    (run \in Builders /\ LacksRenameSource) =>
        /\ err.kind # "none"
        /\ err.step = "rename"
        /\ persisted.by \notin Builders

\* C5 amended: the rename passes over the absent column; the builder fails at
\* the first assignment that reads the renamed column (CurrentRatio) with a
\* KeyError naming CurrentAssets or CurrentLiabilities, and the run persists no
\* KPI table: kpi_table.csv stays absent, or as an earlier run left it.
C5_FailsAtDerive ==
    (run \in Builders /\ LacksRenameSource) =>
        /\ err = KeyError(IF ~HasCol(balance, "TotalCurrentAssets")
                          THEN "CurrentAssets" ELSE "CurrentLiabilities", "derive")
        /\ df = NoTable
        /\ persisted.by \notin Builders
        /\ kpi_file \in {Absent, EarlierKpiFile}

\* a failed build that left the file of an earlier run in place
C5_Witness ==
    /\ run \in Builders
    /\ ~HasCol(balance, "TotalCurrentLiabilities")
    /\ err.col = "CurrentLiabilities"
    /\ kpi_file = EarlierKpiFile

\* C3: a step of a visualize_trends.py run that finds kpi_table.csv leaves the
\* file and its writer as they are; load_or_build_kpi_table then returns the
\* file's table and does not call build_kpi_table.  So a file that differs
\* from what the sources now give is returned, and stays, as it is.
C3_CacheNeverRefreshed ==
    [][(kpi_file.exists /\ (pc # "idle" \/ pc' # "idle")) =>
          /\ kpi_file' = kpi_file
          /\ persisted' = persisted
          /\ pc = "idle" => (origin' = "artifact" /\ df' = read_csv(kpi_file.data))]_vars

\* a finished trend run over a file a builder wrote from sources that have
\* since changed, so that a build now would write something else
C3_Witness ==
    /\ run = "trend" /\ pc = "idle" /\ origin = "artifact" /\ Len(written) = 4
    /\ persisted.by \in Builders
    /\ persisted.inc # income
    /\ BuildFrame(income, balance).err = NoError
    /\ kpi_file # File(to_csv(BuildFrame(income, balance).df))
    /\ df = read_csv(kpi_file.data)

\* C4: a plot_trend call on a table without Year or without the requested
\* column ends in the missing-column error naming a column that is absent
\* (Year first), and writes no chart: every chart file stays as it was.
C4_MissingColumn ==
    [][(pc = "charts"
          /\ (~HasCol(df, "Year") \/ ~HasCol(df, Charts[chart_idx].column))) =>
          /\ err'.kind = "ValueError"
          /\ err'.col = IF ~HasCol(df, "Year") THEN "Year" ELSE Charts[chart_idx].column
          /\ charts' = charts]_vars

\* the ROE chart of an earlier run is still there after plot_trend failed on ROE
C4_Witness ==
    /\ err = ValueError("ROE", "plot")
    /\ ~HasCol(df, "ROE")
    /\ charts["roe_trend.png"].exists
    /\ charts["roe_trend.png"].y # <<>>

ChartOrder == <<"OperatingMargin", "NetMargin", "ROE", "DebtToEquity">>

ChartFileOrder ==
    <<"operating_margin_trend.png", "net_margin_trend.png", "roe_trend.png",
      "debt_to_equity_trend.png">>

\* C6: the plot_trend calls of a run are a prefix of OperatingMargin,
\* NetMargin, ROE, DebtToEquity, one call each; the charts written are the
\* same prefix, less the last call when it failed; a failed call ends the run
\* with its error, and the print is reached only after all four calls.
C6_PrefixOfCharts ==
    /\ called = SubSeq(ChartOrder, 1, Len(called))
    /\ written = SubSeq(ChartFileOrder, 1, Len(written))
    /\ Len(called) <= Len(ChartOrder)
    /\ run = "trend" =>
          IF err.kind = "ValueError"
          THEN /\ pc = "idle"
               /\ Len(called) = Len(written) + 1
               /\ err.col \in {"Year", called[Len(called)]}
          ELSE Len(called) = Len(written)
    /\ pc = "charts" => chart_idx = Len(called) + 1
    /\ pc = "print" => Len(written) = Len(ChartOrder)

\* the third call failed: two charts written, the run over
C6_Witness ==
    /\ pc = "idle"
    /\ called = <<"OperatingMargin", "NetMargin", "ROE">>
    /\ written = <<"operating_margin_trend.png", "net_margin_trend.png">>
    /\ err = ValueError("ROE", "plot")

\* C10: a trend run that built its table (no kpi_table.csv found) never
\* ends in the missing-column error: either the build failed and no chart was
\* touched, or kpi_table.csv holds the built table from before the first chart
\* on and all four charts get written.  The missing-column error is only seen
\* in runs that loaded an existing file.
C10_BuildBranchPlotsAll ==
    /\ (run = "trend" /\ origin = "build") =>
          /\ err.kind # "ValueError"
          /\ pc # "idle" => (kpi_file = File(to_csv(df)) /\ err = NoError)
          /\ pc = "idle" =>
                \/ err.step = "derive" /\ written = <<>>
                \/ err = NoError /\ written = ChartFileOrder
    /\ err.kind = "ValueError" => (run = "trend" /\ origin = "artifact")

\* a finished run of the build branch with its four charts
C10_Witness ==
    /\ run = "trend" /\ origin = "build" /\ pc = "idle" /\ err = NoError
    /\ written = ChartFileOrder
    /\ \A f \in ChartFiles : charts[f].exists /\ charts[f].x = Column(df, "Year")

====
